---- MODULE Spec2Model ----
(***************************************************************************)
(* Model of the ImageEditor backend: the WebSocket editing session of      *)
(* backend/routers/websocket_router.py (ConnectionManager and              *)
(* websocket_endpoint) and the crop handler of                             *)
(* backend/routers/image_router.py.                                        *)
(***************************************************************************)
EXTENDS Integers, Sequences, FiniteSets, TLC

(* ------------------------------ bounds -------------------------------- *)

\* frames the clients send, all connections together
MaxMsgs == 3
\* frames in flight (sent, not yet read by receive_text) on one connection
MaxInbox == 2
\* largest image side used for crop requests
MaxDim == 2

Conns == {"ws1", "ws2"}

(* --------------------------- Python / JSON values --------------------- *)

\* Python None (also the value of message.get(key) for a missing key)
None == [none |-> TRUE]
\* a key that the JSON object does not hold
Absent == [absent |-> TRUE]
Str(s) == [str |-> s]
Num(n) == [num |-> n]

\* dict.get(key, default): the default only when the key is missing; a JSON
\* null that is present is returned as None
Get(message, key, default) ==
  IF message[key] = Absent THEN default ELSE message[key]

\* truth value of an optional string: None and "" are falsy
Truthy(v) == v # None /\ v # Str("")

(* ------------------------------- images ------------------------------- *)

\* A PIL image: the pixels it was decoded from (src), its mode, its size and
\* the operations applied to the pixels since, in order.
MkImage(src, mode, w, h) ==
  [src |-> src, mode |-> mode, width |-> w, height |-> h, ops |-> <<>>]

ImgA == MkImage("A", "RGBA", 2, 2)
ImgB == MkImage("B", "RGB", 2, 1)

\* The segments a string splits into at its commas.  A segment is either
\* text that is no base64 of an image, or the base64 of the PNG bytes of an
\* image.
Header == [txt |-> "data:image/png;base64"]
Junk == [txt |-> "not-an-image"]
B64Png(img) == [png |-> img]

IsPng(seg) == "png" \in DOMAIN seg

\* f"data:image/png;base64,{base64_image}"
DataUrl(b64) == <<Header, b64>>

\* base64_string.split(',')[1] when the string has a comma, else the string
StripPrefix(s) == IF Len(s) > 1 THEN s[2] ELSE s[1]

\* base64.b64decode + Image.open raise on bytes that are no image
DecodeFails(s) == ~IsPng(StripPrefix(s))

decode_base64_image(s) == StripPrefix(s).png

encode_image_to_base64(image) == B64Png(image)

\* one more operation applied to the pixels of an image
Apply(img, op) == [img EXCEPT !.ops = Append(@, op)]

\* img.convert('RGB')
ConvertRGB(img) == [Apply(img, <<"convert", "RGB">>) EXCEPT !.mode = "RGB"]

\* ImageEnhance.<kind>(img).enhance(value / 100.0)
Enhance(img, kind, value) == Apply(img, <<kind, value.num, 100>>)

\* FilterStage with the last branch as a plain else
FilterStage_ElseInvert(img, filter_type) ==
  IF filter_type = Str("grayscale") THEN Apply(img, <<"grayscale">>)
  ELSE IF filter_type = Str("sepia") THEN Apply(img, <<"sepia">>)
  ELSE IF filter_type = Str("blur") THEN Apply(img, <<"blur">>)
  ELSE Apply(img, <<"invert">>)

\* the if/elif chain on filter_type: a name that matches none of the four
\* branches leaves the image as it is
FilterStage(img, filter_type) ==
  IF filter_type = Str("grayscale") THEN Apply(img, <<"grayscale">>)
  ELSE IF filter_type = Str("sepia") THEN Apply(img, <<"sepia">>)
  ELSE IF filter_type = Str("blur") THEN Apply(img, <<"blur">>)
  ELSE IF filter_type = Str("invert") THEN Apply(img, <<"invert">>)
  ELSE img

\* the stage runs when the value is not None and differs from 100.0
AdjustStage(img, kind, value) ==
  IF value # None /\ value # Num(100) THEN Enhance(img, kind, value) ELSE img

Normalize(img) == IF img.mode # "RGB" THEN ConvertRGB(img) ELSE img

\* apply_filters_to_image with contrast applied before brightness
apply_filters_ContrastFirst(img, filter_type, brightness, contrast, saturation) ==
  LET rgb == Normalize(img)
      filtered == IF Truthy(filter_type) /\ filter_type # Str("none")
                  THEN FilterStage(rgb, filter_type)
                  ELSE rgb
      contr == AdjustStage(filtered, "Contrast", contrast)
      bright == AdjustStage(contr, "Brightness", brightness)
  IN  AdjustStage(bright, "Color", saturation)

apply_filters_to_image(img, filter_type, brightness, contrast, saturation) ==
  LET rgb == Normalize(img)
      filtered == IF Truthy(filter_type) /\ filter_type # Str("none")
                  THEN FilterStage(rgb, filter_type)
                  ELSE rgb
      bright == AdjustStage(filtered, "Brightness", brightness)
      contr == AdjustStage(bright, "Contrast", contrast)
  IN  AdjustStage(contr, "Color", saturation)

(* --------------------------- client frames ---------------------------- *)

\* A text frame that json.loads rejects
NotJson == [json |-> FALSE]

\* A JSON object.  image_data is the string split at its commas; <<>> stands
\* for a missing key and for "", both falsy at the test on image_data.
Message(type, image_data, filter_type, brightness, contrast, saturation) ==
  [json |-> TRUE, type |-> type, image_data |-> image_data,
   filter_type |-> filter_type, brightness |-> brightness,
   contrast |-> contrast, saturation |-> saturation]

InitMsg(image_data) ==
  Message(Str("init"), image_data, Absent, Absent, Absent, Absent)

FiltersMsg(filter_type, brightness, contrast, saturation) ==
  Message(Str("apply_filters"), <<>>, filter_type, brightness, contrast,
          saturation)

BareMsg(type) == Message(type, <<>>, Absent, Absent, Absent, Absent)

\* the frames the clients of the session protocol send
Messages ==
  { InitMsg(<<Junk>>), InitMsg(DataUrl(B64Png(ImgA))),
    InitMsg(<<B64Png(ImgB)>>),
    FiltersMsg(Str("vintage"), Absent, Absent, Absent),
    FiltersMsg(Str("grayscale"), Num(200), Absent, Absent),
    BareMsg(Str("reset")), BareMsg(Str("ping")), BareMsg(Absent) }

\* the values the parameters of an apply_filters frame take
FilterTypes ==
  { Absent, None, Str(""), Str("none"), Str("grayscale"), Str("sepia"),
    Str("blur"), Str("invert"), Str("vintage") }
Percentages == { Absent, None, Num(100), Num(0), Num(200) }

\* the frames a single pass of the loop is run on
PassFrames ==
  { FiltersMsg(f, b, k, s) :
      f \in FilterTypes, b \in Percentages, k \in Percentages \ {None},
      s \in Percentages \ {None, Num(200)} }
  \cup { NotJson, InitMsg(<<>>), BareMsg(Str("reset")) }

(* --------------------------- server messages -------------------------- *)

Initialized == [type |-> "initialized", status |-> "ready"]
ErrorMsg(text) == [type |-> "error", message |-> text]
FilterResult(b64) == [type |-> "filter_result", image |-> DataUrl(b64)]
ResetResult(b64) == [type |-> "reset_result", image |-> DataUrl(b64)]

(* ---------------- one pass of the loop body, lines 104-154 ------------ *)

\* What one pass does with the frame it read: the value of original_image
\* after it, the message it sends (at most one) and whether it raises before
\* sending.
Step(original, reply) ==
  [original |-> original, reply |-> reply, raised |-> FALSE, detail |-> ""]
Raise(original, detail) ==
  [original |-> original, reply |-> <<>>, raised |-> TRUE, detail |-> detail]

\* OnInit with the decode failure reported and the loop going on
OnInit_ReportAndStay(original, message) ==
  IF message.image_data # <<>>
  THEN IF DecodeFails(message.image_data)
       THEN Step(original, <<ErrorMsg("cannot identify image file")>>)
       ELSE Step(decode_base64_image(message.image_data), <<Initialized>>)
  ELSE Step(original, <<>>)

OnInit(original, message) ==
  IF message.image_data # <<>>
  THEN IF DecodeFails(message.image_data)
       THEN Raise(original, "cannot identify image file")
       ELSE Step(decode_base64_image(message.image_data), <<Initialized>>)
  ELSE Step(original, <<>>)

\* the pipeline run on the stored image itself, not on a copy
OriginalAfterFilters_InPlace(original, processed) == processed

\* original_image.copy(): the pipeline works on a copy, the stored image is
\* the one that was stored
OriginalAfterFilters(original, processed) == original

\* OnApplyFilters without the test on original_image: None has no copy()
OnApplyFilters_NoGuard(original, message) ==
  IF original = None
  THEN Raise(original, "'NoneType' object has no attribute 'copy'")
  ELSE LET processed ==
             apply_filters_to_image(original,
                                    Get(message, "filter_type", None),
                                    Get(message, "brightness", Num(100)),
                                    Get(message, "contrast", Num(100)),
                                    Get(message, "saturation", Num(100)))
       IN  Step(OriginalAfterFilters(original, processed),
                <<FilterResult(encode_image_to_base64(processed))>>)

OnApplyFilters(original, message) ==
  IF original = None
  THEN Step(original, <<ErrorMsg("Image not initialized")>>)
  ELSE LET processed ==
             apply_filters_to_image(original,
                                    Get(message, "filter_type", None),
                                    Get(message, "brightness", Num(100)),
                                    Get(message, "contrast", Num(100)),
                                    Get(message, "saturation", Num(100)))
       IN  Step(OriginalAfterFilters(original, processed),
                <<FilterResult(encode_image_to_base64(processed))>>)

OnReset(original, message) ==
  IF original # None
  THEN Step(original, <<ResetResult(encode_image_to_base64(original))>>)
  ELSE Step(original, <<>>)

\* a final else branch that reports the type
OnOther_Report(original, message) ==
  Step(original, <<ErrorMsg("Unknown message type")>>)

\* no branch of the if/elif chain matches: nothing is done
OnOther(original, message) == Step(original, <<>>)

HandleMessage(original, frame) ==
  IF ~frame.json THEN Raise(original, "Expecting value")
  ELSE LET message_type == Get(frame, "type", None) IN
       IF message_type = Str("init") THEN OnInit(original, frame)
       ELSE IF message_type = Str("apply_filters")
            THEN OnApplyFilters(original, frame)
       ELSE IF message_type = Str("reset") THEN OnReset(original, frame)
       ELSE OnOther(original, frame)

(* ------------------------ crop, image_router.py ------------------------ *)

\* the two tests that raise HTTPException(400) before the crop
InvalidCropParameters(x, y, width, height) ==
  x < 0 \/ y < 0 \/ width <= 0 \/ height <= 0

\* ExceedsImage with the bounds compared by >=
ExceedsImage_OffByOne(img, x, y, width, height) ==
  x + width >= img.width \/ y + height >= img.height

ExceedsImage(img, x, y, width, height) ==
  x + width > img.width \/ y + height > img.height

\* img.crop((x, y, x + width, y + height))
CropBox(img, left, upper, right, lower) ==
  [Apply(img, <<"crop", left, upper, right, lower>>)
     EXCEPT !.width = right - left, !.height = lower - upper]

\* HTTPException(status_code=400, detail=...)
HttpError(detail) == [status |-> 400, detail |-> detail]

\* The handler's try block; whatever it raises, the HTTPException of the
\* two tests included, is caught by `except Exception` and raised again as
\* HTTPException(400, str(e)).
crop_image(image_data, x, y, width, height) ==
  IF DecodeFails(image_data)
  THEN HttpError(<<"cannot identify image file">>)
  ELSE LET img == decode_base64_image(image_data) IN
       IF InvalidCropParameters(x, y, width, height)
       THEN HttpError(<<"400", "Invalid crop parameters">>)
       ELSE IF ExceedsImage(img, x, y, width, height)
       THEN HttpError(<<"400", "Crop area exceeds image dimensions">>)
       ELSE [status |-> 200,
             image |-> DataUrl(encode_image_to_base64(
                         CropBox(img, x, y, x + width, y + height)))]

(* ------------------------------- state -------------------------------- *)

VARIABLES
  active_connections,  \* manager.active_connections, a list
  pc,                  \* where each connection's websocket_endpoint call is
  original_image,      \* the local original_image of each call
  cur,                 \* the frame receive_text returned last (data, message)
  inbox,               \* frames the client sent that were not read yet
  peer,                \* whether the client end of the channel is still open
  nsent,               \* frames the client has sent
  replies,             \* for each message send_json delivered, in order,
                       \* the number of the frame it answers
  last_reply,          \* the last message send_json delivered
  disconnects,         \* calls of manager.disconnect made for each connection
  crop_call            \* the last /api/image/crop request and its response

vars == <<active_connections, pc, original_image, cur, inbox, peer, nsent,
          replies, last_reply, disconnects, crop_call>>

session_vars == <<active_connections, pc, original_image, cur, inbox, peer,
                  nsent, replies, last_reply, disconnects>>

NoFrame == [seq |-> 0, frame |-> NotJson]
NoReply == [type |-> "none"]
NoCall == [none |-> TRUE]
Pending == [pending |-> TRUE]

\* pc: "new"     websocket_endpoint not called yet
\*     "recv"    awaiting websocket.receive_text()
\*     "proc"    a frame was read, the loop body runs
\*     "closed"  the call returned after manager.disconnect
\*     "crashed" the call ended by an exception raised in a handler
InitSession ==
  /\ active_connections = <<>>
  /\ pc = [c \in Conns |-> "new"]
  /\ original_image = [c \in Conns |-> None]
  /\ cur = [c \in Conns |-> NoFrame]
  /\ inbox = [c \in Conns |-> <<>>]
  /\ peer = [c \in Conns |-> "open"]
  /\ nsent = [c \in Conns |-> 0]
  /\ replies = [c \in Conns |-> <<>>]
  /\ last_reply = [c \in Conns |-> NoReply]
  /\ disconnects = [c \in Conns |-> 0]

Init == InitSession /\ crop_call = NoCall

\* Connection ws1 has read a frame of PassFrames, as its first frame or as
\* its second, after an init that stored an image and was acknowledged.
InitPass ==
  /\ active_connections = <<"ws1">>
  /\ pc = [c \in Conns |-> IF c = "ws1" THEN "proc" ELSE "new"]
  /\ inbox = [c \in Conns |-> <<>>]
  /\ peer = [c \in Conns |-> "open"]
  /\ disconnects = [c \in Conns |-> 0]
  /\ crop_call = NoCall
  /\ \E stored \in {None, ImgA, ImgB}, frame \in PassFrames :
       LET n == IF stored = None THEN 1 ELSE 2 IN
       /\ original_image = [c \in Conns |-> IF c = "ws1" THEN stored ELSE None]
       /\ cur = [c \in Conns |-> IF c = "ws1"
                                 THEN [seq |-> n, frame |-> frame]
                                 ELSE NoFrame]
       /\ nsent = [c \in Conns |-> IF c = "ws1" THEN n ELSE 0]
       /\ replies = [c \in Conns |-> IF c = "ws1" /\ n = 2 THEN <<1>>
                                     ELSE <<>>]
       /\ last_reply = [c \in Conns |-> IF c = "ws1" /\ n = 2
                                        THEN Initialized ELSE NoReply]

InList(list, x) == \E i \in 1..Len(list) : list[i] = x

\* RemoveFirst as list.pop(): the last element goes, whichever it is
RemoveFirst_Pop(list, x) == SubSeq(list, 1, Len(list) - 1)

\* list.remove(x): the first occurrence of x goes
RemoveFirst(list, x) ==
  LET i == CHOOSE k \in 1..Len(list) :
             list[k] = x /\ \A j \in 1..(k - 1) : list[j] # x
  IN  SubSeq(list, 1, i - 1) \o SubSeq(list, i + 1, Len(list))

(* ------------------------------ the client ---------------------------- *)

RECURSIVE Total(_, _)
Total(f, S) ==
  IF S = {} THEN 0
  ELSE LET x == CHOOSE y \in S : TRUE IN f[x] + Total(f, S \ {x})

ClientSend(c, m) ==
  /\ pc[c] # "new"
  /\ peer[c] = "open"
  /\ Total(nsent, Conns) < MaxMsgs
  /\ Len(inbox[c]) < MaxInbox
  /\ nsent' = [nsent EXCEPT ![c] = @ + 1]
  /\ inbox' = [inbox EXCEPT ![c] = Append(@, [seq |-> nsent[c] + 1,
                                               frame |-> m])]
  /\ UNCHANGED <<active_connections, pc, original_image, cur, peer, replies,
                 last_reply, disconnects, crop_call>>

ClientClose(c) ==
  /\ pc[c] # "new"
  /\ peer[c] = "open"
  /\ peer' = [peer EXCEPT ![c] = "gone"]
  /\ UNCHANGED <<active_connections, pc, original_image, cur, inbox, nsent,
                 replies, last_reply, disconnects, crop_call>>

(* --------------------------- ConnectionManager ------------------------ *)

\* manager.connect: accept, then append to the list
Connect(c) ==
  /\ pc[c] = "new"
  /\ active_connections' = Append(active_connections, c)
  /\ pc' = [pc EXCEPT ![c] = "recv"]
  /\ original_image' = [original_image EXCEPT ![c] = None]
  /\ UNCHANGED <<cur, inbox, peer, nsent, replies, last_reply, disconnects,
                 crop_call>>

\* Disconnected with the list left as it is
Disconnected_NoRemove(c) ==
  /\ disconnects' = [disconnects EXCEPT ![c] = @ + 1]
  /\ active_connections' = active_connections
  /\ pc' = [pc EXCEPT ![c] = "closed"]

\* manager.disconnect, and the end of the call that follows it.  remove
\* raises ValueError when the connection is not in the list.
Disconnected(c) ==
  /\ disconnects' = [disconnects EXCEPT ![c] = @ + 1]
  /\ IF InList(active_connections, c)
     THEN /\ active_connections' = RemoveFirst(active_connections, c)
          /\ pc' = [pc EXCEPT ![c] = "closed"]
     ELSE /\ active_connections' = active_connections
          /\ pc' = [pc EXCEPT ![c] = "crashed"]

\* what websocket.send_json does: it delivers while the client is there;
\* once the client is gone it raises WebSocketDisconnect, raises another
\* exception, or returns with the message lost, as the server stack decides
SendOutcomes(c) ==
  IF peer[c] = "open" THEN {"sent"}
  ELSE {"WebSocketDisconnect", "Exception", "lost"}

\* send_json delivers message on connection c, in answer to the frame in
\* hand
Deliver(c, message) ==
  /\ replies' = [replies EXCEPT ![c] = Append(@, cur[c].seq)]
  /\ last_reply' = [last_reply EXCEPT ![c] = message]

(* -------------------------- websocket_endpoint ------------------------ *)

\* Receive reading the newest frame in flight, not the oldest
Receive_Newest(c) ==
  /\ pc[c] = "recv"
  /\ inbox[c] # <<>>
  /\ cur' = [cur EXCEPT ![c] = inbox[c][Len(inbox[c])]]
  /\ inbox' = [inbox EXCEPT ![c] = SubSeq(@, 1, Len(@) - 1)]
  /\ pc' = [pc EXCEPT ![c] = "proc"]
  /\ UNCHANGED <<active_connections, original_image, peer, nsent, replies,
                 last_reply, disconnects, crop_call>>

\* receive_text returns the next frame
Receive(c) ==
  /\ pc[c] = "recv"
  /\ inbox[c] # <<>>
  /\ cur' = [cur EXCEPT ![c] = Head(inbox[c])]
  /\ inbox' = [inbox EXCEPT ![c] = Tail(@)]
  /\ pc' = [pc EXCEPT ![c] = "proc"]
  /\ UNCHANGED <<active_connections, original_image, peer, nsent, replies,
                 last_reply, disconnects, crop_call>>

\* receive_text raises WebSocketDisconnect: lines 156-157
ReceiveDisconnect(c) ==
  /\ pc[c] = "recv"
  /\ inbox[c] = <<>>
  /\ peer[c] = "gone"
  /\ Disconnected(c)
  /\ original_image' = [original_image EXCEPT ![c] = None]
  /\ UNCHANGED <<cur, inbox, peer, nsent, replies, last_reply, crop_call>>

\* the loop body runs to its end and the loop goes back to receive_text
Process(c) ==
  /\ pc[c] = "proc"
  /\ LET r == HandleMessage(original_image[c], cur[c].frame) IN
     /\ ~r.raised
     /\ \E o \in (IF r.reply = <<>> THEN {"none"} ELSE SendOutcomes(c)) :
          /\ o \in {"none", "sent", "lost"}
          /\ IF o = "sent" THEN Deliver(c, r.reply[1])
             ELSE UNCHANGED <<replies, last_reply>>
     /\ original_image' = [original_image EXCEPT ![c] = r.original]
  /\ pc' = [pc EXCEPT ![c] = "recv"]
  /\ cur' = cur
  /\ UNCHANGED <<active_connections, inbox, peer, nsent, disconnects,
                 crop_call>>

\* the send in the loop body raises WebSocketDisconnect: lines 156-157
ProcessDisconnect(c) ==
  /\ pc[c] = "proc"
  /\ LET r == HandleMessage(original_image[c], cur[c].frame) IN
     /\ ~r.raised
     /\ r.reply # <<>>
     /\ "WebSocketDisconnect" \in SendOutcomes(c)
  /\ Disconnected(c)
  /\ original_image' = [original_image EXCEPT ![c] = None]
  /\ cur' = cur
  /\ UNCHANGED <<inbox, peer, nsent, replies, last_reply, crop_call>>

\* the loop body raises another exception, lines 158-163: the error message
\* is sent, then manager.disconnect runs.  When that send raises, the
\* exception leaves the handler and line 163 is not reached.
ProcessFail(c) ==
  /\ pc[c] = "proc"
  /\ LET r == HandleMessage(original_image[c], cur[c].frame) IN
     /\ \/ r.raised
        \/ r.reply # <<>> /\ "Exception" \in SendOutcomes(c)
     /\ \E o \in SendOutcomes(c) :
          IF o \in {"sent", "lost"}
          THEN /\ IF o = "sent"
                  THEN Deliver(c, ErrorMsg(IF r.raised THEN r.detail
                                           ELSE "send failed"))
                  ELSE UNCHANGED <<replies, last_reply>>
               /\ Disconnected(c)
          ELSE /\ UNCHANGED <<replies, last_reply, disconnects>>
               /\ active_connections' = active_connections
               /\ pc' = [pc EXCEPT ![c] = "crashed"]
  /\ original_image' = [original_image EXCEPT ![c] = None]
  /\ cur' = cur
  /\ UNCHANGED <<inbox, peer, nsent, crop_call>>

(* ------------------------------ crop request -------------------------- *)

\* the requests sent to /api/image/crop
CropImages ==
  {<<Junk>>} \cup
  { DataUrl(B64Png(MkImage("S", "RGB", w, h))) : w, h \in 1..MaxDim }

CropRequests ==
  [image_data : CropImages, x : (-1)..MaxDim, y : (-1)..MaxDim,
   width : (-1)..(MaxDim + 1), height : (-1)..(MaxDim + 1),
   response : {Pending}]

InitCrop == InitSession /\ crop_call \in CropRequests

\* the handler answers the request; it reads and writes nothing else
CropRequest ==
  /\ crop_call # NoCall
  /\ crop_call.response = Pending
  /\ crop_call' = [crop_call EXCEPT !.response =
                     crop_image(crop_call.image_data, crop_call.x,
                                crop_call.y, crop_call.width,
                                crop_call.height)]
  /\ UNCHANGED session_vars

(* ---------------------------- specifications -------------------------- *)

Next ==
  \E c \in Conns :
    \/ Connect(c)
    \/ \E m \in Messages : ClientSend(c, m)
    \/ ClientClose(c)
    \/ Receive(c)
    \/ ReceiveDisconnect(c)
    \/ Process(c)
    \/ ProcessDisconnect(c)
    \/ ProcessFail(c)

Spec == Init /\ [][Next]_vars

NextPass ==
  \/ ClientClose("ws1")
  \/ Process("ws1")
  \/ ProcessDisconnect("ws1")
  \/ ProcessFail("ws1")
  \/ ReceiveDisconnect("ws1")

SpecPass == InitPass /\ [][NextPass]_vars

NextCrop == CropRequest

SpecCrop == InitCrop /\ [][NextCrop]_vars

(* ------------------------------- claims ------------------------------- *)

Registered(c) == InList(active_connections, c)

\* the type of the frame in hand
FrameType(c) ==
  IF cur[c].frame.json THEN Get(cur[c].frame, "type", None) ELSE None

\* a pass over the frame in hand ends in this step, over a channel the
\* client has not left
Handled(c) == pc[c] = "proc" /\ pc'[c] # "proc" /\ peer[c] = "open"

\* this step delivers exactly one message on c, of the given type, in answer
\* to the frame in hand
Answered(c, type) ==
  /\ replies'[c] = Append(replies[c], cur[c].seq)
  /\ last_reply'[c].type = type

Silent(c) == replies'[c] = replies[c] /\ last_reply'[c] = last_reply[c]

StaysOpen(c) ==
  /\ pc'[c] = "recv"
  /\ InList(active_connections', c)
  /\ active_connections' = active_connections

\* C1: apply_filters on a session that has stored no image is answered by
\* exactly one "error" message; the session stores nothing, stays registered
\* and goes back to reading frames.
C1_ApplyBeforeInit ==
  [][\A c \in Conns :
       (Handled(c) /\ FrameType(c) = Str("apply_filters")
          /\ original_image[c] = None)
       => /\ Answered(c, "error")
          /\ last_reply'[c] = ErrorMsg("Image not initialized")
          /\ original_image'[c] = None
          /\ StaysOpen(c)]_vars

\* the error was delivered in answer to an apply_filters frame and the
\* session is still open and uninitialized
C1_Witness ==
  \E c \in Conns :
    /\ pc[c] = "recv" /\ Registered(c) /\ original_image[c] = None
    /\ FrameType(c) = Str("apply_filters")
    /\ replies[c] # <<>> /\ replies[c][Len(replies[c])] = cur[c].seq
    /\ last_reply[c] = ErrorMsg("Image not initialized")

\* C2: in a session that holds an image, apply_filters and reset leave the
\* stored image as init stored it, and reset answers with a "reset_result"
\* whose image decodes to the stored image.
C2_ResetReturnsOriginal ==
  [][\A c \in Conns :
       /\ (Handled(c) /\ FrameType(c) = Str("init")
             /\ cur[c].frame.image_data # <<>> /\ pc'[c] = "recv")
          => original_image'[c] = StripPrefix(cur[c].frame.image_data).png
       /\ (Handled(c) /\ original_image[c] # None
             /\ FrameType(c) \in {Str("apply_filters"), Str("reset")})
          => /\ original_image'[c] = original_image[c]
             /\ StaysOpen(c)
       /\ (Handled(c) /\ original_image[c] # None
             /\ FrameType(c) = Str("reset"))
          => /\ Answered(c, "reset_result")
             /\ decode_base64_image(last_reply'[c].image) = original_image[c]
             /\ original_image[c].ops = <<>>]_vars

\* init, a frame that was answered, then reset: the reset_result carries the
\* stored image
C2_Witness ==
  \E c \in Conns :
    /\ pc[c] = "recv" /\ FrameType(c) = Str("reset")
    /\ replies[c] = <<1, 2, 3>>
    /\ last_reply[c].type = "reset_result"
    /\ original_image[c] \in {ImgA, ImgB}
    /\ last_reply[c] = ResetResult(B64Png(original_image[c]))

BadInit(c) ==
  /\ FrameType(c) = Str("init")
  /\ cur[c].frame.image_data # <<>>
  /\ ~IsPng(StripPrefix(cur[c].frame.image_data))

Ended(c) == pc[c] \in {"closed", "crashed"}

UnknownType(c) ==
  /\ cur[c].frame.json
  /\ FrameType(c) \notin {Str("init"), Str("apply_filters"), Str("reset")}

\* C4 as claimed: a frame whose type is none of init, apply_filters, reset is
\* answered by an "error" message and the session stays open as it was.
C4_AsClaimed ==
  [][\A c \in Conns :
       (Handled(c) /\ UnknownType(c))
       => /\ Answered(c, "error")
          /\ original_image'[c] = original_image[c]
          /\ StaysOpen(c)]_vars

\* C4, amended: a frame whose type is none of init, apply_filters, reset
\* (a missing type included) is ignored: nothing is sent, and the session
\* stays open, registered and in the state it was in.
C4_UnknownTypeIgnored ==
  [][\A c \in Conns :
       (pc[c] = "proc" /\ pc'[c] # "proc" /\ UnknownType(c))
       => /\ Silent(c)
          /\ original_image'[c] = original_image[c]
          /\ StaysOpen(c)]_vars

\* a READY session has passed over a frame without a type and one of an
\* unknown type, and sent nothing since the acknowledgement of its init
C4_Witness ==
  \E c \in Conns :
    /\ pc[c] = "recv" /\ Registered(c) /\ original_image[c] # None
    /\ UnknownType(c) /\ cur[c].seq = 3 /\ inbox[c] = <<>>
    /\ replies[c] = <<1>> /\ last_reply[c] = Initialized

\* C5: when receive_text raises WebSocketDisconnect, whatever the session
\* holds, the connection is removed from the registry, the call returns and
\* the stored image is released; nothing is sent on a closed connection
\* afterwards and it stays closed and out of the registry.
C5_DisconnectCleansUp ==
  [][\A c \in Conns :
       /\ (pc[c] = "recv" /\ inbox[c] = <<>> /\ peer[c] = "gone"
             /\ pc'[c] # "recv")
          => /\ pc'[c] = "closed"
             /\ ~InList(active_connections', c)
             /\ original_image'[c] = None
             /\ Silent(c)
       /\ pc[c] = "closed"
          => /\ pc'[c] = "closed"
             /\ ~InList(active_connections', c)
             /\ original_image'[c] = None
             /\ Silent(c)]_vars

\* the client left after its init was acknowledged and before any
\* apply_filters: the session is closed, out of the registry, its image gone
C5_Witness ==
  \E c \in Conns :
    /\ pc[c] = "closed" /\ peer[c] = "gone" /\ ~Registered(c)
    /\ original_image[c] = None
    /\ cur[c].frame = InitMsg(DataUrl(B64Png(ImgA)))
    /\ replies[c] = <<1>> /\ last_reply[c] = Initialized

\* C6: no connection whose session has ended is left in active_connections,
\* also when the send of the "error" message itself failed.
C6_EndedSessionsDeregistered ==
  \A c \in Conns : Ended(c) => ~Registered(c)

CropDone == crop_call # NoCall /\ crop_call.response # Pending

\* C7: a crop request on a decodable W x H image is answered 400 when x<0,
\* y<0, width<=0, height<=0, x+width>W or y+height>H, and otherwise 200 with
\* an image of size width x height; the request changes nothing of the
\* sessions or the registry.
C7_CropValidation ==
  (CropDone /\ IsPng(StripPrefix(crop_call.image_data)))
  => LET img == StripPrefix(crop_call.image_data).png
         rq == crop_call
         rejected == \/ rq.x < 0 \/ rq.y < 0
                     \/ rq.width <= 0 \/ rq.height <= 0
                     \/ rq.x + rq.width > img.width
                     \/ rq.y + rq.height > img.height
     IN  /\ rejected => rq.response.status = 400
         /\ ~rejected
            => /\ rq.response.status = 200
               /\ StripPrefix(rq.response.image).png.width = rq.width
               /\ StripPrefix(rq.response.image).png.height = rq.height
         /\ InitSession

\* a crop whose area leaves the image, its other parameters valid, was
\* answered 400
C7_Witness ==
  /\ CropDone /\ IsPng(StripPrefix(crop_call.image_data))
  /\ crop_call.x >= 0 /\ crop_call.y >= 0
  /\ crop_call.width > 0 /\ crop_call.height > 0
  /\ crop_call.x + crop_call.width
       > StripPrefix(crop_call.image_data).png.width
  /\ crop_call.response.status = 400

SupportedFilters == {"grayscale", "sepia", "blur", "invert"}

\* the frame in hand names a filter outside none, grayscale, sepia, blur,
\* invert (the empty string names none)
UnknownFilter(c) ==
  /\ FrameType(c) = Str("apply_filters")
  /\ "str" \in DOMAIN cur[c].frame.filter_type
  /\ cur[c].frame.filter_type.str \notin SupportedFilters \cup {"none", ""}

FilterOps(img) ==
  { i \in 1..Len(img.ops) :
      Len(img.ops[i]) = 1 \/ img.ops[i][1] \notin
        {"convert", "Brightness", "Contrast", "Color"} }

\* C8 as claimed: in a READY session an apply_filters frame that names an
\* unknown filter is answered by an "error" message.
C8_AsClaimed ==
  [][\A c \in Conns :
       (Handled(c) /\ original_image[c] # None /\ UnknownFilter(c))
       => Answered(c, "error")]_vars

\* C8, amended: in a READY session an apply_filters frame that names an
\* unknown filter is not rejected: it is answered by a "filter_result" whose
\* image went through no filter stage, and the session stays READY.
C8_UnknownFilterIgnored ==
  [][\A c \in Conns :
       (Handled(c) /\ original_image[c] # None /\ UnknownFilter(c))
       => /\ Answered(c, "filter_result")
          /\ FilterOps(decode_base64_image(last_reply'[c].image)) = {}
          /\ decode_base64_image(last_reply'[c].image).src
               = original_image[c].src
          /\ original_image'[c] = original_image[c]
          /\ StaysOpen(c)]_vars

\* a filter_result was delivered in answer to a frame naming "vintage"
C8_Witness ==
  \E c \in Conns :
    /\ pc[c] = "recv" /\ original_image[c] # None
    /\ FrameType(c) = Str("apply_filters")
    /\ cur[c].frame.filter_type = Str("vintage")
    /\ replies[c][Len(replies[c])] = cur[c].seq
    /\ last_reply[c].type = "filter_result"

Present(v) == v # Absent /\ v # None

AdjustmentStage(kind, v) ==
  IF Present(v) /\ v # Num(100) THEN <<<<kind, v.num, 100>>>> ELSE <<>>

\* the stages of a frame: the filter stage as the claim has it (filter_type
\* present and not "none", an empty string counted as absent) or only for
\* the four filters there are
StagesOf(frame, anyName) ==
  LET f == frame.filter_type IN
  (IF Present(f) /\ f # Str("") /\ f # Str("none")
      /\ (anyName \/ f.str \in SupportedFilters)
   THEN <<<<f.str>>>> ELSE <<>>)
  \o AdjustmentStage("Brightness", frame.brightness)
  \o AdjustmentStage("Contrast", frame.contrast)
  \o AdjustmentStage("Color", frame.saturation)

\* the original in 3-channel colour
Normalized(img) ==
  IF img.mode = "RGB" THEN img
  ELSE [img EXCEPT !.mode = "RGB", !.ops = Append(@, <<"convert", "RGB">>)]

FilterResultIs(c, anyName) ==
  (Handled(c) /\ original_image[c] # None
     /\ FrameType(c) = Str("apply_filters"))
  => /\ Answered(c, "filter_result")
     /\ decode_base64_image(last_reply'[c].image)
          = [Normalized(original_image[c]) EXCEPT
               !.ops = @ \o StagesOf(cur[c].frame, anyName)]
     /\ original_image'[c] = original_image[c]
     /\ StaysOpen(c)

\* C9 as claimed: the stages applied are the subsequence of [filter_type,
\* brightness, contrast, saturation] whose parameter is non-neutral, a
\* filter_type being non-neutral when present and not "none".
C9_AsClaimed == [][\A c \in Conns : FilterResultIs(c, TRUE)]_vars

\* C9, amended: the stages applied to the RGB-normalized copy are the
\* subsequence of [filter_type, brightness, contrast, saturation] whose
\* parameter is non-neutral, in that order, a filter_type being non-neutral
\* only when it is one of grayscale, sepia, blur, invert, an adjustment when
\* present and not 100; with none the result is the normalized original;
\* the session stays READY and keeps its original.
C9_StagesInOrder == [][\A c \in Conns : FilterResultIs(c, FALSE)]_vars

\* a filter_result whose image went through normalization and all four
\* stages
C9_Witness ==
  \E c \in Conns :
    /\ pc[c] = "recv" /\ original_image[c] = ImgA
    /\ last_reply[c].type = "filter_result"
    /\ decode_base64_image(last_reply[c].image).ops
         = <<<<"convert", "RGB">>, <<"sepia">>, <<"Brightness", 200, 100>>,
             <<"Contrast", 0, 100>>, <<"Color", 0, 100>>>>

Increasing(q) == \A i, j \in 1..Len(q) : i < j => q[i] < q[j]

\* C10: on each connection the frames are read one at a time in the order
\* they were sent, none skipped, and every message delivered answers the
\* frame in hand: the answers come in the order of the frames, and none
\* answers a frame after a later one was read.
C10_InOrder ==
  \A c \in Conns :
    /\ \A i \in 1..Len(inbox[c]) : inbox[c][i].seq = cur[c].seq + i
    /\ cur[c].seq + Len(inbox[c]) = nsent[c]
    /\ Increasing(replies[c])
    /\ \A i \in 1..Len(replies[c]) :
         /\ replies[c][i] <= cur[c].seq
         /\ pc[c] = "proc" => replies[c][i] < cur[c].seq
    /\ pc[c] = "proc" => cur[c].seq >= 1

\* two sessions were served side by side, each answered in order
C10_Witness ==
  /\ replies["ws1"] = <<1, 2>> /\ replies["ws2"] = <<1>>
  /\ last_reply["ws1"].type = "filter_result"
  /\ last_reply["ws2"].type = "initialized"

Occurrences(list, x) == Cardinality({i \in 1..Len(list) : list[i] = x})

\* C11: under every interleaving of the sessions, the registry holds no
\* connection twice; manager.disconnect is called at most once for a
\* connection, and only while the connection is in the list, so that
\* list.remove never raises: a session that has called it has returned with
\* its connection removed, and the connections in the list are those of the
\* sessions that never called it.
C11_RegistryConsistent ==
  \A c \in Conns :
    /\ Occurrences(active_connections, c) <= 1
    /\ disconnects[c] <= 1
    /\ disconnects[c] = 1 <=> pc[c] = "closed"
    /\ pc[c] = "closed" => ~Registered(c)
    /\ pc[c] \in {"recv", "proc"} => Registered(c)
    /\ pc[c] = "new" => ~Registered(c)

\* both sessions ran side by side and ended, each by one call of
\* manager.disconnect, the one that connected first leaving last
C11_Witness ==
  /\ active_connections = <<>>
  /\ \A c \in Conns : pc[c] = "closed" /\ disconnects[c] = 1
  /\ replies["ws1"] # <<>> /\ replies["ws2"] # <<>>

====
